---------------------------- MODULE Spec2Model ----------------------------
(***************************************************************************)
(* Grid construction and alert evaluation of the testgrid updater          *)
(* (pkg/updater/updater.go): constructGrid folds inflated columns into a   *)
(* grid with appendColumn / appendCell / appendMetric, evaluates alertRow  *)
(* on every row after each column and finally sorts rows and metrics.      *)
(* Update, its pool of group workers, testGroupPath, updateGroup and the   *)
(* progress reporter logUpdate are the second state machine (SpecUpdate).  *)
(*                                                                         *)
(* Strings that the code compares with sortorder.NaturalLess (row names,   *)
(* metric names) are sequences of one-character strings, so the comparator *)
(* is computed character by character.  Go maps are TLA+ functions; the    *)
(* order in which a Go `range` visits a map is an explicit permutation     *)
(* chosen nondeterministically by the action that runs the loop.           *)
(* Slice positions are 1-based here; every index the code stores in data   *)
(* (metric indices, failIdx, compressedIdx) keeps its 0-based value.       *)
(***************************************************************************)
EXTENDS Integers, Sequences, FiniteSets, TLC

VARIABLES
    group,   \* the configpb.TestGroup handed to constructGrid
    cols,    \* the inflated columns the loop has folded so far, newest first
    builds,  \* how many builds were read for the group: len(cols) of the call
    grid,    \* the state.Grid under construction
    pc,      \* "fold": in the loop of constructGrid; "done": grid returned;
             \* "off": constructGrid is not the machine that runs
    cfg,               \* cfg.TestGroups, the test groups of the configuration
    groupName,         \* Update's parameter group: "" for all groups
    groupConcurrency,  \* Update's parameter groupConcurrency
    confirm,           \* Update's parameter confirm
    upc,               \* where the goroutine that runs Update stands
    ret,               \* the error Update returned
    nextIdx,           \* index in cfg.TestGroups of the group to send next
    groupsChan,        \* the channel groups: "nil", "open" or "closed"
    wg,                \* the counter of the sync.WaitGroup
    workers,           \* the worker goroutines started so far
    calls,             \* per test group: what the workers did with it
    idxChan,           \* the channel idxChan: "nil", "open" or "closed"
    lpc,               \* where the goroutine that runs logUpdate stands
    current            \* logUpdate's variable current

\* the state of one run of constructGrid
gridVars == <<group, builds, cols, grid, pc>>

\* the state of one run of Update
updateVars == <<cfg, groupName, groupConcurrency, confirm, upc, ret, nextIdx,
                groupsChan, wg, workers, calls, idxChan, lpc, current>>

vars == <<gridVars, updateVars>>

-----------------------------------------------------------------------------
(* Bounds of the model. *)

\* most columns folded under Spec
MaxCols == 3
\* most columns folded under SpecAlert
MaxAlertCols == 4
\* largest NumFailuresToAlert / NumPassesToDisableAlert under SpecAlert
MaxThreshold == 2
\* most test groups in the configuration under SpecUpdate
MaxGroups == 2
\* largest groupConcurrency under SpecUpdate
MaxWorkers == 2

-----------------------------------------------------------------------------
(* state.Row_Result values used by the updater. *)

Row_NO_RESULT == "NO_RESULT"
Row_PASS      == "PASS"
Row_FAIL      == "FAIL"
Row_FLAKY     == "FLAKY"
Row_RUNNING   == "RUNNING"

\* Pointers that may be nil (*state.Column, *state.AlertInfo,
\* *timestamp.Timestamp) are sequences: <<>> is nil, <<x>> points to x.
Nil == <<>>

Ref(x) == <<x>>

Deref(p) == p[1]

-----------------------------------------------------------------------------
(* Generic helpers on sequences and sets. *)

Range(s) == {s[i] : i \in DOMAIN s}

\* all orders in which a Go range may visit the keys S of a map
Perms(S) ==
    {p \in [1..Cardinality(S) -> S] : \A x \in S : \E i \in DOMAIN p : p[i] = x}

RECURSIVE Repeat(_, _)
Repeat(x, n) == IF n <= 0 THEN <<>> ELSE <<x>> \o Repeat(x, n - 1)

RECURSIVE SumSeq(_)
SumSeq(s) == IF s = <<>> THEN 0 ELSE Head(s) + SumSeq(Tail(s))

-----------------------------------------------------------------------------
(* sortorder.NaturalLess (vbom.ml/util/sortorder): chunks of digits are    *)
(* compared as numbers, everything else bytewise; digits sort before other *)
(* characters, and among equal numbers the one with fewer leading zeros is *)
(* less.                                                                   *)

Digits == {"0", "1", "2", "3", "4", "5", "6", "7", "8", "9"}

isdigit(c) == c \in Digits

\* the byte value of the characters the model's names are made of
ByteOf(c) ==
    CASE c = "0" -> 48 [] c = "1" -> 49 [] c = "2" -> 50 [] c = "3" -> 51
      [] c = "4" -> 52 [] c = "5" -> 53 [] c = "6" -> 54 [] c = "7" -> 55
      [] c = "8" -> 56 [] c = "9" -> 57 [] c = "a" -> 97 [] c = "b" -> 98
      [] c = "m" -> 109 [] c = "t" -> 116

\* first position >= i of s that does not hold "0" (Len(s)+1 if none)
RECURSIVE EatZeros(_, _)
EatZeros(s, i) ==
    IF i <= Len(s) /\ s[i] = "0" THEN EatZeros(s, i + 1) ELSE i

\* first position >= i of s that does not hold a digit (Len(s)+1 if none)
RECURSIVE EatDigits(_, _)
EatDigits(s, i) ==
    IF i <= Len(s) /\ isdigit(s[i]) THEN EatDigits(s, i + 1) ELSE i

\* bytewise s < t for two strings of the same length
RECURSIVE BytesLess(_, _)
BytesLess(s, t) ==
    IF s = <<>> \/ t = <<>> THEN FALSE
    ELSE IF Head(s) # Head(t) THEN ByteOf(Head(s)) < ByteOf(Head(t))
    ELSE BytesLess(Tail(s), Tail(t))

RECURSIVE NaturalLessFrom(_, _, _, _)
NaturalLessFrom(str1, str2, idx1, idx2) ==
    IF idx1 > Len(str1) \/ idx2 > Len(str2)
    THEN Len(str1) < Len(str2)
    ELSE LET c1 == str1[idx1]
             c2 == str2[idx2]
             dig1 == isdigit(c1)
             dig2 == isdigit(c2)
         IN  IF dig1 # dig2 THEN dig1
             ELSE IF ~dig1
             THEN IF c1 # c2 THEN ByteOf(c1) < ByteOf(c2)
                  ELSE NaturalLessFrom(str1, str2, idx1 + 1, idx2 + 1)
             ELSE LET nonZero1 == EatZeros(str1, idx1)
                      nonZero2 == EatZeros(str2, idx2)
                      end1 == EatDigits(str1, nonZero1)
                      end2 == EatDigits(str2, nonZero2)
                      len1 == end1 - nonZero1
                      len2 == end2 - nonZero2
                      nr1 == SubSeq(str1, nonZero1, end1 - 1)
                      nr2 == SubSeq(str2, nonZero2, end2 - 1)
                  IN  IF len1 # len2 THEN len1 < len2
                      ELSE IF nr1 # nr2 THEN BytesLess(nr1, nr2)
                      ELSE IF nonZero1 # nonZero2 THEN nonZero1 < nonZero2
                      ELSE NaturalLessFrom(str1, str2, end1, end2)

NaturalLess(str1, str2) == NaturalLessFrom(str1, str2, 1, 1)

\* sort.SliceStable: stable insertion of x into the sorted keyed sequence s;
\* keyOf is the sequence of the sort keys of s, in step with s
RECURSIVE InsertStable(_, _, _, _)
InsertStable(s, keyOf, x, k) ==
    IF s = <<>> THEN <<x>>
    ELSE IF NaturalLess(k, Head(keyOf)) THEN <<x>> \o s
    ELSE <<Head(s)>> \o InsertStable(Tail(s), Tail(keyOf), x, k)

\* sort.SliceStable(s, NaturalLess on keys): keys[i] is the sort key of s[i]
RECURSIVE SliceStable(_, _)
SliceStable(s, keys) ==
    IF s = <<>> THEN <<>>
    ELSE LET n == Len(s)
             front == SliceStable(SubSeq(s, 1, n - 1), SubSeq(keys, 1, n - 1))
             frontKeys == SliceStable(SubSeq(keys, 1, n - 1), SubSeq(keys, 1, n - 1))
         IN  InsertStable(front, frontKeys, s[n], keys[n])

-----------------------------------------------------------------------------
(* The grid assembler: appendMetric, appendCell, appendColumn. *)

\* var emptyCell = cell{result: state.Row_NO_RESULT}
emptyCell ==
    [result |-> Row_NO_RESULT, message |-> "", icon |-> "", cellID |-> "",
     metrics |-> <<>>]

\* &state.Row{Name: name, Id: name}
NewRow(name) ==
    [Name |-> name, Id |-> name, Results |-> <<>>, CellIds |-> <<>>,
     Messages |-> <<>>, Icons |-> <<>>, Metric |-> <<>>, Metrics |-> <<>>,
     AlertInfo |-> Nil]

\* &state.Metric{Name: metricName}
NewMetric(metricName) ==
    [Name |-> metricName, Indices |-> <<>>, Values |-> <<>>]

\* appendMetric that extends a run by moving its start instead of its length
appendMetric_growsStart(metric, idx, value) ==
    LET l == Len(metric.Indices)
    IN  IF l = 0 \/ metric.Indices[l - 1] + metric.Indices[l] # idx
        THEN [metric EXCEPT !.Indices = @ \o <<idx, 1>>,
                            !.Values = Append(@, value)]
        ELSE [metric EXCEPT !.Indices[l - 1] = @ + 1,
                            !.Values = Append(@, value)]

\* appendMetric adds the value at index idx to the sparse metric
appendMetric(metric, idx, value) ==
    LET l == Len(metric.Indices)
    IN  IF l = 0 \/ metric.Indices[l - 1] + metric.Indices[l] # idx
        THEN [metric EXCEPT !.Indices = @ \o <<idx, 1>>,
                            !.Values = Append(@, value)]
        ELSE [metric EXCEPT !.Indices[l] = @ + 1,
                            !.Values = Append(@, value)]

\* position in row.Metrics of the first metric named metricName, 0 if none
\* (the search loop of appendCell, which leaves metric nil when it finds none)
FindMetric(row, metricName) ==
    IF \E k \in DOMAIN row.Metrics : row.Metrics[k].Name = metricName
    THEN CHOOSE k \in DOMAIN row.Metrics :
            /\ row.Metrics[k].Name = metricName
            /\ \A j \in 1..(k - 1) : row.Metrics[j].Name # metricName
    ELSE 0

\* appendCellMetrics that samples at len(row.CellIds), forgetting that the
\* cell id was appended already
RECURSIVE appendCellMetrics_offByOne(_, _, _)
appendCellMetrics_offByOne(row, cell, morder) ==
    IF morder = <<>> THEN row
    ELSE LET metricName == Head(morder)
             measurement == cell.metrics[metricName]
             withName == IF metricName \in Range(row.Metric)
                         THEN row
                         ELSE [row EXCEPT !.Metric = Append(@, metricName)]
             withMetric == IF FindMetric(withName, metricName) = 0
                           THEN [withName EXCEPT
                                    !.Metrics = Append(@, NewMetric(metricName))]
                           ELSE withName
             k == FindMetric(withMetric, metricName)
             sampled == [withMetric EXCEPT !.Metrics[k] =
                            appendMetric(@, Len(row.CellIds), measurement)]
         IN  appendCellMetrics_offByOne(sampled, cell, Tail(morder))

\* one pass of `for metricName, measurement := range cell.metrics` of
\* appendCell, for the metric names still to visit (morder), in that order
RECURSIVE appendCellMetrics(_, _, _)
appendCellMetrics(row, cell, morder) ==
    IF morder = <<>> THEN row
    ELSE LET metricName == Head(morder)
             measurement == cell.metrics[metricName]
             withName == IF metricName \in Range(row.Metric)
                         THEN row
                         ELSE [row EXCEPT !.Metric = Append(@, metricName)]
             withMetric == IF FindMetric(withName, metricName) = 0
                           THEN [withName EXCEPT
                                    !.Metrics = Append(@, NewMetric(metricName))]
                           ELSE withName
             k == FindMetric(withMetric, metricName)
             \* len()-1 because we already appended the cell id
             sampled == [withMetric EXCEPT !.Metrics[k] =
                            appendMetric(@, Len(row.CellIds) - 1, measurement)]
         IN  appendCellMetrics(sampled, cell, Tail(morder))

\* appendCellOnce without the `continue` for NO_RESULT cells: every cell
\* gets its metrics, message and icon recorded
appendCellOnce_noSkip(row, cell, morder) ==
    LET withId == [row EXCEPT !.CellIds = Append(@, cell.cellID)]
        withMetrics == appendCellMetrics(withId, cell, morder)
    IN  [withMetrics EXCEPT !.Messages = Append(@, cell.message),
                            !.Icons = Append(@, cell.icon)]

\* appendCellOnce that treats a RUNNING cell like a NO_RESULT cell: no
\* metrics, message or icon recorded for it
appendCellOnce_skipsRunning(row, cell, morder) ==
    LET withId == [row EXCEPT !.CellIds = Append(@, cell.cellID)]
    IN  IF cell.result \in {Row_NO_RESULT, Row_RUNNING}
        THEN withId
        ELSE LET withMetrics == appendCellMetrics(withId, cell, morder)
             IN  [withMetrics EXCEPT !.Messages = Append(@, cell.message),
                                     !.Icons = Append(@, cell.icon)]

\* one iteration of `for i := 0; i < count; i++` of appendCell
appendCellOnce(row, cell, morder) ==
    LET withId == [row EXCEPT !.CellIds = Append(@, cell.cellID)]
    IN  IF cell.result = Row_NO_RESULT
        THEN withId
        ELSE LET withMetrics == appendCellMetrics(withId, cell, morder)
             IN  \* Javascript client expects no result cells to skip icons/messages
                 [withMetrics EXCEPT !.Messages = Append(@, cell.message),
                                     !.Icons = Append(@, cell.icon)]

RECURSIVE appendCellLoop(_, _, _, _)
appendCellLoop(row, cell, count, morder) ==
    IF count <= 0 THEN row
    ELSE appendCellLoop(appendCellOnce(row, cell, morder), cell, count - 1, morder)

\* appendResult that opens every new run with length 1, whatever count is
appendResult_runOfOne(row, cell, count) ==
    LET latest == cell.result
        n == Len(row.Results)
    IN  IF n = 0 \/ row.Results[n - 1] # latest
        THEN [row EXCEPT !.Results = @ \o <<latest, 1>>]
        ELSE [row EXCEPT !.Results[n] = @ + count]

\* the run-length encoding of cell.result into row.Results (the switch of appendCell)
appendResult(row, cell, count) ==
    LET latest == cell.result
        n == Len(row.Results)
    IN  IF n = 0 \/ row.Results[n - 1] # latest
        THEN [row EXCEPT !.Results = @ \o <<latest, count>>]
        ELSE [row EXCEPT !.Results[n] = @ + count]

\* appendCell adds count copies of cell to the row; morder is the order in
\* which the range over cell.metrics visits the metric names
appendCell(row, cell, count, morder) ==
    appendCellLoop(appendResult(row, cell, count), cell, count, morder)

\* the rows map of constructGrid: position in grid.Rows of the row of that
\* name, 0 when the map has no such key
RowIndex(g, name) ==
    IF \E k \in DOMAIN g.Rows : g.Rows[k].Name = name
    THEN CHOOSE k \in DOMAIN g.Rows : g.Rows[k].Name = name
    ELSE 0

\* `for name, cell := range inflated.cells` of appendColumn, for the names
\* still to visit (order); morders[name] is the order of the cell's metrics
RECURSIVE appendColumnCells(_, _, _, _)
appendColumnCells(g, inflated, order, morders) ==
    IF order = <<>> THEN g
    ELSE LET name == Head(order)
             cell == inflated.cells[name]
             ok == RowIndex(g, name) # 0
             n == Len(g.Columns)
             created == IF n > 1
                        THEN appendCell(NewRow(name), emptyCell, n - 1, <<>>)
                        ELSE NewRow(name)
             withRow == IF ok THEN g ELSE [g EXCEPT !.Rows = Append(@, created)]
             k == RowIndex(withRow, name)
             next == [withRow EXCEPT !.Rows[k] =
                         appendCell(@, cell, 1, morders[name])]
         IN  appendColumnCells(next, inflated, Tail(order), morders)

\* appendColumn without its last loop: rows missing from the column get no cell
appendColumn_noMissing(g, inflated, order, morders) ==
    appendColumnCells([g EXCEPT !.Columns = Append(@, inflated.column)],
                      inflated, order, morders)

\* appendColumn adds the build column to the grid; order is the order in
\* which the range over inflated.cells visits the names.  The rows left in
\* missing are distinct rows, so the order of the last loop does not matter.
appendColumn(g, inflated, order, morders) ==
    LET withCol == [g EXCEPT !.Columns = Append(@, inflated.column)]
        missing == {g.Rows[k].Name : k \in DOMAIN g.Rows} \ DOMAIN inflated.cells
        withCells == appendColumnCells(withCol, inflated, order, morders)
    IN  [withCells EXCEPT !.Rows =
            [k \in DOMAIN withCells.Rows |->
                IF withCells.Rows[k].Name \in missing
                THEN appendCell(withCells.Rows[k], emptyCell, 1, <<>>)
                ELSE withCells.Rows[k]]]

-----------------------------------------------------------------------------
(* The alert evaluator: alertRows, alertRow, alertInfo, buildID, stamp. *)

\* const billion = 1e9
billion == 1000000000

\* result.Iter: the results of a row, one per cell, decoded from the
\* run-length encoding <<code, count, code, count, ...>>
RECURSIVE Iter(_)
Iter(results) ==
    IF Len(results) < 2 THEN <<>>
    ELSE Repeat(results[1], results[2]) \o Iter(SubSeq(results, 3, Len(results)))

\* result.Coalesce(res, result.IgnoreRunning): RUNNING becomes NO_RESULT,
\* the other results of the model are kept
Coalesce(res) == IF res = Row_RUNNING THEN Row_NO_RESULT ELSE res

\* buildID extracts the ID from the first extra row or else the Build field
buildID(col) ==
    IF col = Nil THEN ""
    ELSE IF Len(Deref(col).Extra) > 0 THEN Deref(col).Extra[1]
    ELSE Deref(col).Build

\* stamp converts seconds into a timestamp proto; col.Started counts half
\* seconds, so floor is Started \div 2 and remain is 0 or one half
stamp(col) ==
    IF col = Nil THEN Nil
    ELSE Ref([Seconds |-> Deref(col).Started \div 2,
              Nanos |-> ((Deref(col).Started % 2) * billion) \div 2])

\* alertInfo returns an alert proto with the configured fields
alertInfo(failures, msg, cellId, fail, pass) ==
    Ref([FailCount |-> failures,
         FailBuildId |-> buildID(fail),
         FailTime |-> stamp(fail),
         FailTestId |-> cellId,
         FailureMessage |-> msg,
         PassTime |-> stamp(pass),
         PassBuildId |-> buildID(pass)])

\* the local variables of alertRow before its loop; exit is "loop" while the
\* loop runs, "break" after a break and "return" after `return nil` inside it
alertStart ==
    [failures |-> 0, totalFailures |-> 0, passes |-> 0, compressedIdx |-> 0,
     lastFail |-> Nil, latestPass |-> Nil, failIdx |-> 0, exit |-> "loop"]

\* alertStep in which a FLAKY result does not end a run of failures
alertStep_flakyKeeps(st, col, rawRes, failuresToOpen, passesToClose) ==
    LET res == Coalesce(rawRes)
    IN  IF res = Row_NO_RESULT
        THEN IF rawRes = Row_RUNNING
             THEN [st EXCEPT !.compressedIdx = @ + 1]
             ELSE st
        ELSE IF res = Row_PASS
        THEN IF st.failures >= failuresToOpen
             THEN [st EXCEPT !.passes = @ + 1, !.latestPass = Ref(col),
                             !.exit = "break"]
             ELSE IF st.passes + 1 >= passesToClose
             THEN [st EXCEPT !.passes = @ + 1, !.exit = "return"]
             ELSE [st EXCEPT !.passes = @ + 1, !.failures = 0,
                             !.compressedIdx = @ + 1]
        ELSE IF res = Row_FAIL
        THEN [st EXCEPT !.passes = 0,
                        !.failures = @ + 1,
                        !.totalFailures = @ + 1,
                        !.failIdx = IF st.failures + 1 = 1
                                    THEN st.compressedIdx ELSE @,
                        !.lastFail = Ref(col),
                        !.compressedIdx = @ + 1]
        ELSE IF res = Row_FLAKY
        THEN IF st.failures >= failuresToOpen
             THEN [st EXCEPT !.passes = 0, !.exit = "break"]
             ELSE [st EXCEPT !.passes = 0, !.compressedIdx = @ + 1]
        ELSE [st EXCEPT !.compressedIdx = @ + 1]

\* alertStep that notes the failing column only at the first failure of a
\* run, next to failIdx
alertStep_newestFail(st, col, rawRes, failuresToOpen, passesToClose) ==
    LET res == Coalesce(rawRes)
    IN  IF res = Row_NO_RESULT
        THEN IF rawRes = Row_RUNNING
             THEN [st EXCEPT !.compressedIdx = @ + 1]
             ELSE st
        ELSE IF res = Row_PASS
        THEN IF st.failures >= failuresToOpen
             THEN [st EXCEPT !.passes = @ + 1, !.latestPass = Ref(col),
                             !.exit = "break"]
             ELSE IF st.passes + 1 >= passesToClose
             THEN [st EXCEPT !.passes = @ + 1, !.exit = "return"]
             ELSE [st EXCEPT !.passes = @ + 1, !.failures = 0,
                             !.compressedIdx = @ + 1]
        ELSE IF res = Row_FAIL
        THEN [st EXCEPT !.passes = 0,
                        !.failures = @ + 1,
                        !.totalFailures = @ + 1,
                        !.failIdx = IF st.failures + 1 = 1
                                    THEN st.compressedIdx ELSE @,
                        !.lastFail = IF st.failures + 1 = 1 THEN Ref(col) ELSE @,
                        !.compressedIdx = @ + 1]
        ELSE IF res = Row_FLAKY
        THEN IF st.failures >= failuresToOpen
             THEN [st EXCEPT !.passes = 0, !.exit = "break"]
             ELSE [st EXCEPT !.passes = 0, !.failures = 0,
                             !.compressedIdx = @ + 1]
        ELSE [st EXCEPT !.compressedIdx = @ + 1]

\* alertStep in which a RUNNING cell ends the runs of failures and of passes
alertStep_runningBreaks(st, col, rawRes, failuresToOpen, passesToClose) ==
    LET res == Coalesce(rawRes)
    IN  IF res = Row_NO_RESULT
        THEN IF rawRes = Row_RUNNING
             THEN [st EXCEPT !.compressedIdx = @ + 1, !.failures = 0,
                             !.passes = 0]
             ELSE st
        ELSE IF res = Row_PASS
        THEN IF st.failures >= failuresToOpen
             THEN [st EXCEPT !.passes = @ + 1, !.latestPass = Ref(col),
                             !.exit = "break"]
             ELSE IF st.passes + 1 >= passesToClose
             THEN [st EXCEPT !.passes = @ + 1, !.exit = "return"]
             ELSE [st EXCEPT !.passes = @ + 1, !.failures = 0,
                             !.compressedIdx = @ + 1]
        ELSE IF res = Row_FAIL
        THEN [st EXCEPT !.passes = 0,
                        !.failures = @ + 1,
                        !.totalFailures = @ + 1,
                        !.failIdx = IF st.failures + 1 = 1
                                    THEN st.compressedIdx ELSE @,
                        !.lastFail = Ref(col),
                        !.compressedIdx = @ + 1]
        ELSE IF res = Row_FLAKY
        THEN IF st.failures >= failuresToOpen
             THEN [st EXCEPT !.passes = 0, !.exit = "break"]
             ELSE [st EXCEPT !.passes = 0, !.failures = 0,
                             !.compressedIdx = @ + 1]
        ELSE [st EXCEPT !.compressedIdx = @ + 1]

\* alertStep whose count of all failures starts over whenever the run of
\* failures does
alertStep_resetsTotal(st, col, rawRes, failuresToOpen, passesToClose) ==
    LET res == Coalesce(rawRes)
    IN  IF res = Row_NO_RESULT
        THEN IF rawRes = Row_RUNNING
             THEN [st EXCEPT !.compressedIdx = @ + 1]
             ELSE st
        ELSE IF res = Row_PASS
        THEN IF st.failures >= failuresToOpen
             THEN [st EXCEPT !.passes = @ + 1, !.latestPass = Ref(col),
                             !.exit = "break"]
             ELSE IF st.passes + 1 >= passesToClose
             THEN [st EXCEPT !.passes = @ + 1, !.exit = "return"]
             ELSE [st EXCEPT !.passes = @ + 1, !.failures = 0,
                             !.totalFailures = 0,
                             !.compressedIdx = @ + 1]
        ELSE IF res = Row_FAIL
        THEN [st EXCEPT !.passes = 0,
                        !.failures = @ + 1,
                        !.totalFailures = @ + 1,
                        !.failIdx = IF st.failures + 1 = 1
                                    THEN st.compressedIdx ELSE @,
                        !.lastFail = Ref(col),
                        !.compressedIdx = @ + 1]
        ELSE IF res = Row_FLAKY
        THEN IF st.failures >= failuresToOpen
             THEN [st EXCEPT !.passes = 0, !.exit = "break"]
             ELSE [st EXCEPT !.passes = 0, !.failures = 0,
                             !.totalFailures = 0,
                             !.compressedIdx = @ + 1]
        ELSE [st EXCEPT !.compressedIdx = @ + 1]

\* one iteration of `for _, col := range cols` of alertRow on the raw result
alertStep(st, col, rawRes, failuresToOpen, passesToClose) ==
    LET res == Coalesce(rawRes)
    IN  IF res = Row_NO_RESULT
        THEN IF rawRes = Row_RUNNING
             THEN [st EXCEPT !.compressedIdx = @ + 1]
             ELSE st
        ELSE IF res = Row_PASS
        THEN IF st.failures >= failuresToOpen
             THEN \* most recent pass before outage
                  [st EXCEPT !.passes = @ + 1, !.latestPass = Ref(col),
                             !.exit = "break"]
             ELSE IF st.passes + 1 >= passesToClose
             THEN \* there is no outage
                  [st EXCEPT !.passes = @ + 1, !.exit = "return"]
             ELSE [st EXCEPT !.passes = @ + 1, !.failures = 0,
                             !.compressedIdx = @ + 1]
        ELSE IF res = Row_FAIL
        THEN [st EXCEPT !.passes = 0,
                        !.failures = @ + 1,
                        !.totalFailures = @ + 1,
                        \* note most recent failure for this outage
                        !.failIdx = IF st.failures + 1 = 1
                                    THEN st.compressedIdx ELSE @,
                        !.lastFail = Ref(col),
                        !.compressedIdx = @ + 1]
        ELSE IF res = Row_FLAKY
        THEN IF st.failures >= failuresToOpen
             THEN \* cannot definitively say which commit is at fault
                  [st EXCEPT !.passes = 0, !.exit = "break"]
             ELSE [st EXCEPT !.passes = 0, !.failures = 0,
                             !.compressedIdx = @ + 1]
        ELSE [st EXCEPT !.compressedIdx = @ + 1]

\* the loop of alertRow from column i on; ch is the decoded result stream,
\* and a receive from the exhausted stream yields the zero value NO_RESULT
RECURSIVE alertLoop(_, _, _, _, _, _)
alertLoop(columns, ch, i, st, failuresToOpen, passesToClose) ==
    IF i > Len(columns) \/ st.exit # "loop" THEN st
    ELSE LET rawRes == IF i <= Len(ch) THEN ch[i] ELSE Row_NO_RESULT
         IN  alertLoop(columns, ch, i + 1,
                       alertStep(st, columns[i], rawRes,
                                 failuresToOpen, passesToClose),
                       failuresToOpen, passesToClose)

\* the local variables of alertRow when its loop is left
alertScan(columns, row, failuresToOpen, passesToClose) ==
    alertLoop(columns, Iter(row.Results), 1, alertStart,
              failuresToOpen, passesToClose)

\* alertRow returns an AlertInfo proto if there have been failuresToOpen
\* consecutive failures more recently than passesToClose
alertRow(columns, row, failuresToOpen, passesToClose) ==
    IF failuresToOpen = 0 THEN Nil
    ELSE LET st == alertScan(columns, row, failuresToOpen, passesToClose)
         IN  IF st.exit = "return" THEN Nil
             ELSE IF st.failures < failuresToOpen THEN Nil
             ELSE alertInfo(st.totalFailures,
                            row.Messages[st.failIdx + 1],
                            row.CellIds[st.failIdx + 1],
                            st.lastFail, st.latestPass)

\* alertRows configures the alert for every row that has one
alertRows(g, openFailures, closePasses) ==
    [g EXCEPT !.Rows =
        [k \in DOMAIN g.Rows |->
            [g.Rows[k] EXCEPT !.AlertInfo =
                alertRow(g.Columns, g.Rows[k], openFailures, closePasses)]]]

-----------------------------------------------------------------------------
(* constructGrid. *)

\* var grid state.Grid
emptyGrid == [Columns |-> <<>>, Rows |-> <<>>]

\* failsOpen := int(group.NumFailuresToAlert)
failsOpen(tg) == tg.NumFailuresToAlert

\* passesClose, defaulted to 1 when alerts are on and it is 0
passesClose(tg) ==
    IF tg.NumFailuresToAlert > 0 /\ tg.NumPassesToDisableAlert = 0
    THEN 1
    ELSE tg.NumPassesToDisableAlert

\* the body of `for _, col := range cols` of constructGrid
foldColumn(tg, g, col, order, morders) ==
    alertRows(appendColumn(g, col, order, morders), failsOpen(tg), passesClose(tg))

\* sortRowMetrics that sorts row.Metric and leaves row.Metrics as appended
sortRowMetrics_namesOnly(row) ==
    [row EXCEPT !.Metric = SliceStable(@, @)]

\* the two sorts of one row's Metric and Metrics
sortRowMetrics(row) ==
    [row EXCEPT
        !.Metric = SliceStable(@, @),
        !.Metrics = SliceStable(@, [k \in DOMAIN row.Metrics |-> row.Metrics[k].Name])]

\* constructGrid without the sort of grid.Rows
sortRows_none(g) == g

\* the sort of grid.Rows by name
sortRows(g) ==
    [g EXCEPT !.Rows = SliceStable(@, [k \in DOMAIN g.Rows |-> g.Rows[k].Name])]

\* what constructGrid does after its loop: sort the rows, then sort every
\* row's Metric and Metrics
sortGrid(g) ==
    LET sorted == sortRows(g)
    IN  [sorted EXCEPT !.Rows =
            [k \in DOMAIN sorted.Rows |-> sortRowMetrics(sorted.Rows[k])]]

\* constructGrid's loop over the columns cs, every map ranged over in one
\* fixed order
CanonOrder(S) == CHOOSE p \in Perms(S) : TRUE

RECURSIVE foldColumns(_, _, _)
foldColumns(tg, g, cs) ==
    IF cs = <<>> THEN g
    ELSE LET cells == Head(cs).cells
             morders == [n \in DOMAIN cells |-> CanonOrder(DOMAIN cells[n].metrics)]
         IN  foldColumns(tg,
                         foldColumn(tg, g, Head(cs), CanonOrder(DOMAIN cells), morders),
                         Tail(cs))

\* constructGrid will append all the inflatedColumns into the returned Grid
constructGrid(tg, cs) == sortGrid(foldColumns(tg, emptyGrid, cs))

-----------------------------------------------------------------------------
(* The inputs: test groups and the inflated columns of their builds.       *)
(* Builds are numbered 1 (oldest) .. builds (newest); constructGrid gets   *)
(* them newest first, so column i of the grid is build  builds + 1 - i.    *)

\* test names and metric names: natural order and byte order disagree on them
T2  == <<"t", "2">>
T10 == <<"t", "1", "0">>
M2  == <<"m", "2">>
M10 == <<"m", "1", "0">>

BuildNames == <<"b1", "b2", "b3", "b4", "b5", "b6">>
ExtraNames == <<"x1", "x2", "x3", "x4", "x5", "x6">>
CellNames  == <<"id1", "id2", "id3", "id4", "id5", "id6">>
MsgNames   == <<"msg1", "msg2", "msg3", "msg4", "msg5", "msg6">>
IconNames  == <<"icon1", "icon2", "icon3", "icon4", "icon5", "icon6">>

\* a test group whose builds run T2 (with metrics) and T10; it alerts after
\* two failures and leaves NumPassesToDisableAlert unset
GridGroups ==
    {[Name |-> "grid", NumFailuresToAlert |-> 2, NumPassesToDisableAlert |-> 0,
      Extras |-> 0]}

\* test groups whose builds run the single test T2, under every alert setting
AlertGroups ==
    {[Name |-> "alert", NumFailuresToAlert |-> f, NumPassesToDisableAlert |-> p,
      Extras |-> x] : f \in 0..MaxThreshold, p \in 0..MaxThreshold, x \in 0..1}

\* most builds listed for the group
MaxBuilds(tg) == IF tg.Name = "grid" THEN MaxCols ELSE MaxAlertCols

\* the column header of build b: started at b + 999.5 seconds
ColumnOf(tg, b) ==
    [Build |-> BuildNames[b],
     Started |-> 1999 + 2 * b,
     Extra |-> IF tg.Extras > 0 THEN <<ExtraNames[b]>> ELSE <<>>]

\* the cell of build b with that result and a sample for each metric of ms
CellOf(b, res, ms) ==
    [result |-> res, message |-> MsgNames[b], icon |-> IconNames[b],
     cellID |-> CellNames[b], metrics |-> [m \in ms |-> b]]

\* the cells a test of the group may have in build b (a test may also be
\* absent from the build, see CellMaps, which gives it a NO_RESULT cell)
CellChoices(tg, name, b) ==
    IF tg.Name = "grid"
    THEN IF name = T2
         THEN {CellOf(b, r, ms) : r \in {Row_PASS, Row_FAIL},
                                  ms \in {{}, {M10}, {M2, M10}}}
              \cup {CellOf(b, Row_NO_RESULT, ms) : ms \in {{}, {M10}}}
         ELSE {CellOf(b, Row_PASS, {})}
    ELSE {CellOf(b, r, {}) : r \in {Row_RUNNING, Row_PASS, Row_FAIL, Row_FLAKY}}

\* the tests of the group
TestNames(tg) == IF tg.Name = "grid" THEN {T2, T10} ELSE {T2}

\* every name -> cell map build b of the group may have
CellMaps(tg, b) ==
    UNION {{f \in [S -> UNION {CellChoices(tg, n, b) : n \in S}] :
                \A n \in S : f[n] \in CellChoices(tg, n, b)} :
           S \in SUBSET TestNames(tg)}

\* every order of the metrics of every cell of the map
MetricOrders(cells) ==
    {mo \in [DOMAIN cells ->
                UNION {Perms(DOMAIN cells[n].metrics) : n \in DOMAIN cells}] :
        \A n \in DOMAIN cells : mo[n] \in Perms(DOMAIN cells[n].metrics)}

-----------------------------------------------------------------------------
(* The state machine: one run of constructGrid(group, cols). *)

\* Update is not running
UpdateIdle ==
    /\ cfg = <<>>
    /\ groupName = ""
    /\ groupConcurrency = 0
    /\ confirm = FALSE
    /\ upc = "off"
    /\ ret = Nil
    /\ nextIdx = 0
    /\ groupsChan = "nil"
    /\ wg = 0
    /\ workers = <<>>
    /\ calls = <<>>
    /\ idxChan = "nil"
    /\ lpc = "off"
    /\ current = 0

InitFor(groups) ==
    /\ group \in groups
    /\ builds \in 0..MaxBuilds(group)
    /\ cols = <<>>
    /\ grid = emptyGrid
    /\ pc = "fold"
    /\ UpdateIdle

Init == InitFor(GridGroups)

InitAlert == InitFor(AlertGroups)

\* one iteration of the loop of constructGrid: appendColumn, then alertRows
AppendColumn ==
    /\ pc = "fold"
    /\ Len(cols) < builds
    /\ \E cells \in CellMaps(group, builds - Len(cols)) :
       \E order \in Perms(DOMAIN cells) :
       \E morders \in MetricOrders(cells) :
          LET inflated == [column |-> ColumnOf(group, builds - Len(cols)),
                           cells |-> cells]
          IN  /\ cols' = Append(cols, inflated)
              /\ grid' = foldColumn(group, grid, inflated, order, morders)
    /\ UNCHANGED <<group, builds, pc>>
    /\ UNCHANGED updateVars

\* the loop is over: sort rows and metrics, return the grid
Return ==
    /\ pc = "fold"
    /\ Len(cols) = builds
    /\ grid' = sortGrid(grid)
    /\ pc' = "done"
    /\ UNCHANGED <<group, builds, cols>>
    /\ UNCHANGED updateVars

Next == AppendColumn \/ Return

Spec == Init /\ [][Next]_vars

SpecAlert == InitAlert /\ [][Next]_vars

-----------------------------------------------------------------------------
(* Update: the goroutine that runs Update (the driver), the pool of        *)
(* groupConcurrency workers that range over the unbuffered channel groups, *)
(* testGroupPath and updateGroup as the workers call them, and logUpdate.  *)
(* A send on an unbuffered channel and its receive are one step.  A panic  *)
(* in any goroutine ends the process: no goroutine takes a step after it.  *)

GroupNames == <<"g1", "g2", "g3", "g4">>

\* cfg.TestGroups of a configuration with n test groups
TestGroups(n) ==
    [i \in 1..n |->
        [Name |-> GroupNames[i], NumFailuresToAlert |-> 1,
         NumPassesToDisableAlert |-> 0, Extras |-> 0]]

\* the values of Update's parameter group: none, the first group's name, a
\* name no group has
GroupArgs == {"", GroupNames[1], "missing"}

\* Update's parameter configPath
ConfigPath == [Bucket |-> "bucket", Object |-> "config"]

\* config.FindTestGroup: a pointer to the test group of that name, here its
\* 0-based position in cfg.TestGroups, or nil
FindTestGroup(name, c) ==
    IF \E i \in DOMAIN c : c[i].Name = name
    THEN Ref((CHOOSE i \in DOMAIN c :
                 /\ c[i].Name = name
                 /\ \A j \in 1..(i - 1) : c[j].Name # name) - 1)
    ELSE Nil

\* the position of test group tg in cfg.TestGroups (1-based)
GroupIndex(tg) == CHOOSE i \in DOMAIN cfg : cfg[i].Name = tg.Name

\* what url.Parse(name) may return: nil (with an error) or the URL
ParseOutcomes(name) == {Nil, Ref(name)}

\* what g.ResolveReference(u) may return: a path in g's bucket, a path in
\* another bucket, or no path and an error
ResolveOutcomes(g, u) ==
    {[np |-> Ref([Bucket |-> g.Bucket, Object |-> u]), err |-> Nil],
     [np |-> Ref([Bucket |-> "other", Object |-> u]), err |-> Nil],
     [np |-> Nil, err |-> Ref("resolve reference")]}

\* testGroupPath() returns the path to a test_group proto given this proto;
\* parsed and resolved are what url.Parse and g.ResolveReference returned
testGroupPath(g, name, parsed, resolved) ==
    IF parsed = Nil
    THEN [path |-> Nil, err |-> Ref("invalid url")]
    ELSE IF resolved.err = Nil /\ Deref(resolved.np).Bucket # g.Bucket
    THEN [path |-> Nil, err |-> Ref("should not change bucket")]
    ELSE [path |-> resolved.np, err |-> Nil]

\* the first step of updateGroup that fails, "none" when every step succeeds
UpdateOutcomes ==
    {[failAt |-> f] : f \in {"set", "list", "read", "marshal", "upload", "none"}}

\* the columns readColumns returns for the group: one build in which test
\* T2 failed
ReadColumns(tg) ==
    <<[column |-> ColumnOf(tg, 1), cells |-> (T2 :> CellOf(1, Row_FAIL, {}))]>>

\* marshalGrid serializes a state proto into zlib-compressed bytes
marshalGrid(g, io) ==
    IF io.failAt = "marshal"
    THEN [buf |-> Nil, err |-> Ref("marshal")]
    ELSE [buf |-> Ref([zlib |-> g]), err |-> Nil]

\* updateGroup that uploads whatever write says
updateGroup_ignoresWrite(tg, gridPath, write, io) ==
    IF io.failAt = "set"
    THEN [err |-> Ref("set group path"), uploads |-> <<>>]
    ELSE IF io.failAt = "list"
    THEN [err |-> Ref("list builds"), uploads |-> <<>>]
    ELSE IF io.failAt = "read"
    THEN [err |-> Ref("read columns"), uploads |-> <<>>]
    ELSE LET m == marshalGrid(constructGrid(tg, ReadColumns(tg)), io)
         IN  IF m.err # Nil
             THEN [err |-> Ref("marshal grid"), uploads |-> <<>>]
             ELSE IF io.failAt = "upload"
             THEN [err |-> Ref("upload"),
                   uploads |-> <<[path |-> gridPath, buf |-> Deref(m.buf)]>>]
             ELSE [err |-> Nil,
                   uploads |-> <<[path |-> gridPath, buf |-> Deref(m.buf)]>>]

\* updateGroup: the error it returns and the calls of client.Upload it
\* makes, io naming the first of its steps that fails
updateGroup(tg, gridPath, write, io) ==
    IF io.failAt = "set"
    THEN [err |-> Ref("set group path"), uploads |-> <<>>]
    ELSE IF io.failAt = "list"
    THEN [err |-> Ref("list builds"), uploads |-> <<>>]
    ELSE IF io.failAt = "read"
    THEN [err |-> Ref("read columns"), uploads |-> <<>>]
    ELSE LET m == marshalGrid(constructGrid(tg, ReadColumns(tg)), io)
         IN  IF m.err # Nil
             THEN [err |-> Ref("marshal grid"), uploads |-> <<>>]
             ELSE IF ~write
             THEN \* Skipping write
                  [err |-> Nil, uploads |-> <<>>]
             ELSE IF io.failAt = "upload"
             THEN [err |-> Ref("upload"),
                   uploads |-> <<[path |-> gridPath, buf |-> Deref(m.buf)]>>]
             ELSE [err |-> Nil,
                   uploads |-> <<[path |-> gridPath, buf |-> Deref(m.buf)]>>]

\* what is recorded of a test group nothing was done with yet
NoCalls ==
    [received |-> 0, rejected |-> 0, invoked |-> 0, finished |-> 0,
     io |-> Nil, err |-> Nil, uploads |-> <<>>]

\* a worker goroutine blocked in `for tg := range groups`
NewWorker == [pc |-> "range", tg |-> Nil, tgp |-> Nil]

\* a receive from groups that wakes every worker blocked on the channel
Deliver_broadcast(ws, w, tg) ==
    [v \in DOMAIN ws |->
        IF ws[v].pc = "range" THEN [ws[v] EXCEPT !.pc = "path", !.tg = Ref(tg)]
        ELSE ws[v]]

\* `tg := range groups` of worker w receives tg
Deliver(ws, w, tg) ==
    [ws EXCEPT ![w] = [@ EXCEPT !.pc = "path", !.tg = Ref(tg)]]

\* a driver that goes on to the next group also after sending a named group
AfterSend_allGroups(name, i, n) ==
    [nextIdx |-> i + 1, upc |-> IF i + 1 < n THEN "offer" ELSE "close"]

\* where the driver stands after `groups <- *tg` of the group at position i
\* of n: a named group is the only one sent, otherwise the loop goes on
AfterSend(name, i, n) ==
    IF name # ""
    THEN [nextIdx |-> i, upc |-> "close"]
    ELSE [nextIdx |-> i + 1, upc |-> IF i + 1 < n THEN "offer" ELSE "close"]

\* no goroutine has panicked
Alive ==
    /\ lpc # "panicked"
    /\ \A w \in DOMAIN workers : workers[w].pc # "panicked"

InitUpdate ==
    /\ group \in GridGroups
    /\ builds = 0
    /\ cols = <<>>
    /\ grid = emptyGrid
    /\ pc = "off"
    /\ \E n \in 0..MaxGroups : cfg = TestGroups(n)
    /\ groupName \in GroupArgs
    /\ groupConcurrency \in 0..MaxWorkers
    /\ confirm \in BOOLEAN
    /\ upc = "read"
    /\ ret = Nil
    /\ nextIdx = 0
    /\ groupsChan = "nil"
    /\ wg = 0
    /\ workers = <<>>
    /\ calls = [i \in DOMAIN cfg |-> NoCalls]
    /\ idxChan = "nil"
    /\ lpc = "off"
    /\ current = 0

\* config.ReadGCS fails and Update returns its error, or it succeeds and the
\* channel groups is made
ReadConfig ==
    /\ Alive
    /\ upc = "read"
    /\ \/ /\ upc' = "returned"
          /\ ret' = Ref("read config")
          /\ UNCHANGED groupsChan
       \/ /\ upc' = "spawn"
          /\ groupsChan' = "open"
          /\ UNCHANGED ret
    /\ UNCHANGED <<cfg, groupName, groupConcurrency, confirm, nextIdx, wg,
                   workers, calls, idxChan, lpc, current>>
    /\ UNCHANGED gridVars

\* one iteration of `for i := 0; i < groupConcurrency; i++`
Spawn ==
    /\ Alive
    /\ upc = "spawn"
    /\ Len(workers) < groupConcurrency
    /\ wg' = wg + 1
    /\ workers' = Append(workers, NewWorker)
    /\ UNCHANGED <<cfg, groupName, groupConcurrency, confirm, upc, ret, nextIdx,
                   groupsChan, calls, idxChan, lpc, current>>
    /\ UNCHANGED gridVars

\* `if group != ""`: the named group is looked up; Update returns an error
\* when it is not found
FindGroup ==
    /\ Alive
    /\ upc = "spawn"
    /\ Len(workers) = groupConcurrency
    /\ groupName # ""
    /\ LET tg == FindTestGroup(groupName, cfg)
       IN  IF tg = Nil
           THEN /\ upc' = "returned"
                /\ ret' = Ref("group not found")
                /\ UNCHANGED nextIdx
           ELSE /\ upc' = "send"
                /\ nextIdx' = Deref(tg)
                /\ UNCHANGED ret
    /\ UNCHANGED <<cfg, groupName, groupConcurrency, confirm, groupsChan, wg,
                   workers, calls, idxChan, lpc, current>>
    /\ UNCHANGED gridVars

\* the else branch: idxChan is made and logUpdate started
StartLogUpdate ==
    /\ Alive
    /\ upc = "spawn"
    /\ Len(workers) = groupConcurrency
    /\ groupName = ""
    /\ idxChan' = "open"
    /\ lpc' = "start"
    /\ upc' = IF Len(cfg) > 0 THEN "offer" ELSE "close"
    /\ UNCHANGED <<cfg, groupName, groupConcurrency, confirm, ret, nextIdx,
                   groupsChan, wg, workers, calls, current>>
    /\ UNCHANGED gridVars

\* `select { case idxChan <- i: default: }`: logUpdate receives i when it
\* waits in its select, and the send is dropped otherwise
Offer ==
    /\ Alive
    /\ upc = "offer"
    /\ current' = IF lpc = "select" THEN nextIdx ELSE current
    /\ upc' = "send"
    /\ UNCHANGED <<cfg, groupName, groupConcurrency, confirm, ret, nextIdx,
                   groupsChan, wg, workers, calls, idxChan, lpc>>
    /\ UNCHANGED gridVars

\* `groups <- *tg` meets `tg := range groups` of worker w
Send(w) ==
    /\ Alive
    /\ upc = "send"
    /\ groupsChan = "open"
    /\ workers[w].pc = "range"
    /\ workers' = Deliver(workers, w, cfg[nextIdx + 1])
    /\ calls' = [calls EXCEPT ![nextIdx + 1].received = @ + 1]
    /\ nextIdx' = AfterSend(groupName, nextIdx, Len(cfg)).nextIdx
    /\ upc' = AfterSend(groupName, nextIdx, Len(cfg)).upc
    /\ UNCHANGED <<cfg, groupName, groupConcurrency, confirm, ret, groupsChan,
                   wg, idxChan, lpc, current>>
    /\ UNCHANGED gridVars

\* close(groups)
CloseGroups ==
    /\ Alive
    /\ upc = "close"
    /\ groupsChan' = "closed"
    /\ upc' = "wait"
    /\ UNCHANGED <<cfg, groupName, groupConcurrency, confirm, ret, nextIdx, wg,
                   workers, calls, idxChan, lpc, current>>
    /\ UNCHANGED gridVars

\* wg.Wait() is over: return nil, and the deferred close(idxChan) runs
WaitReturn ==
    /\ Alive
    /\ upc = "wait"
    /\ wg = 0
    /\ upc' = "returned"
    /\ ret' = Nil
    /\ idxChan' = IF idxChan = "open" THEN "closed" ELSE idxChan
    /\ UNCHANGED <<cfg, groupName, groupConcurrency, confirm, nextIdx,
                   groupsChan, wg, workers, calls, lpc, current>>
    /\ UNCHANGED gridVars

\* worker w calls testGroupPath; on an error it logs it and goes back to the
\* channel, otherwise it dereferences the path and enters updateGroup
WorkerPath(w) ==
    /\ Alive
    /\ workers[w].pc = "path"
    /\ \E parsed \in ParseOutcomes(Deref(workers[w].tg).Name) :
       \E resolved \in ResolveOutcomes(ConfigPath, Deref(workers[w].tg).Name) :
          LET g == GroupIndex(Deref(workers[w].tg))
              r == testGroupPath(ConfigPath, Deref(workers[w].tg).Name,
                                 parsed, resolved)
          IN  IF r.err # Nil
              THEN /\ workers' = [workers EXCEPT ![w] = NewWorker]
                   /\ calls' = [calls EXCEPT ![g].rejected = @ + 1]
              ELSE IF r.path = Nil
              THEN /\ workers' = [workers EXCEPT ![w].pc = "panicked"]
                   /\ UNCHANGED calls
              ELSE /\ workers' = [workers EXCEPT ![w].pc = "update",
                                                 ![w].tgp = r.path]
                   /\ calls' = [calls EXCEPT ![g].invoked = @ + 1]
    /\ UNCHANGED <<cfg, groupName, groupConcurrency, confirm, upc, ret, nextIdx,
                   groupsChan, wg, idxChan, lpc, current>>
    /\ UNCHANGED gridVars

\* updateGroup of worker w returns; the worker logs its error, if any, and
\* goes back to the channel
WorkerUpdate(w) ==
    /\ Alive
    /\ workers[w].pc = "update"
    /\ \E io \in UpdateOutcomes :
          LET g == GroupIndex(Deref(workers[w].tg))
              r == updateGroup(Deref(workers[w].tg), Deref(workers[w].tgp),
                               confirm, io)
          IN  calls' = [calls EXCEPT ![g].finished = @ + 1,
                                     ![g].io = Ref(io),
                                     ![g].err = r.err,
                                     ![g].uploads = @ \o r.uploads]
    /\ workers' = [workers EXCEPT ![w] = NewWorker]
    /\ UNCHANGED <<cfg, groupName, groupConcurrency, confirm, upc, ret, nextIdx,
                   groupsChan, wg, idxChan, lpc, current>>
    /\ UNCHANGED gridVars

\* the range of worker w ends on the closed channel: wg.Done()
WorkerExit(w) ==
    /\ Alive
    /\ workers[w].pc = "range"
    /\ groupsChan = "closed"
    /\ workers' = [workers EXCEPT ![w].pc = "done"]
    /\ wg' = wg - 1
    /\ UNCHANGED <<cfg, groupName, groupConcurrency, confirm, upc, ret, nextIdx,
                   groupsChan, calls, idxChan, lpc, current>>
    /\ UNCHANGED gridVars

\* logUpdate reaches its select
LogStart ==
    /\ Alive
    /\ lpc = "start"
    /\ lpc' = "select"
    /\ UNCHANGED <<cfg, groupName, groupConcurrency, confirm, upc, ret, nextIdx,
                   groupsChan, wg, workers, calls, idxChan, current>>
    /\ UNCHANGED gridVars

\* `case current, ok = <-ch` on the closed channel: logUpdate returns
LogClosed ==
    /\ Alive
    /\ lpc = "select"
    /\ idxChan = "closed"
    /\ current' = 0
    /\ lpc' = "returned"
    /\ UNCHANGED <<cfg, groupName, groupConcurrency, confirm, upc, ret, nextIdx,
                   groupsChan, wg, workers, calls, idxChan>>
    /\ UNCHANGED gridVars

\* `case now := <-timer.C`: elapsed / time.Duration(current) panics when
\* current is 0; otherwise the progress is logged and the timer reset
TimerFires ==
    /\ Alive
    /\ lpc = "select"
    /\ lpc' = IF current = 0 THEN "panicked" ELSE "select"
    /\ UNCHANGED <<cfg, groupName, groupConcurrency, confirm, upc, ret, nextIdx,
                   groupsChan, wg, workers, calls, idxChan, current>>
    /\ UNCHANGED gridVars

\* the steps of the goroutine that runs Update
Driver ==
    \/ ReadConfig
    \/ Spawn
    \/ FindGroup
    \/ StartLogUpdate
    \/ Offer
    \/ \E w \in DOMAIN workers : Send(w)
    \/ CloseGroups
    \/ WaitReturn

\* the steps of worker goroutine w on its own
Worker(w) ==
    \/ WorkerPath(w)
    \/ WorkerUpdate(w)
    \/ WorkerExit(w)

\* the steps of logUpdate that do not wait for the timer
LogUpdate ==
    \/ LogStart
    \/ LogClosed

NextUpdate ==
    \/ Driver
    \/ \E w \in DOMAIN workers : Worker(w)
    \/ LogUpdate
    \/ TimerFires

SpecUpdate == InitUpdate /\ [][NextUpdate]_vars

\* every goroutine that can take a step is scheduled eventually; nothing
\* forces the timer to fire
SpecUpdateFair ==
    /\ InitUpdate
    /\ [][NextUpdate]_vars
    /\ WF_vars(Driver)
    /\ \A w \in 1..MaxWorkers : WF_vars(w \in DOMAIN workers /\ Worker(w))
    /\ WF_vars(LogUpdate)

-----------------------------------------------------------------------------
(* What the inputs say, independently of the grid: used to state the       *)
(* properties below.                                                       *)

\* the names that occur in at least one folded column
SeenNames == UNION {DOMAIN cols[i].cells : i \in 1..Len(cols)}

\* the result of test name in the i-th folded column, NO_RESULT when absent
InputResult(name, i) ==
    IF name \in DOMAIN cols[i].cells
    THEN cols[i].cells[name].result
    ELSE Row_NO_RESULT

\* the results of test name over the folded columns, newest first
InputRow(name) == [i \in 1..Len(cols) |-> InputResult(name, i)]

\* how many of the first n folded columns hold a result other than NO_RESULT for name
PresentCount(name, n) ==
    Cardinality({i \in 1..n : InputResult(name, i) # Row_NO_RESULT})

\* the run lengths of a run-length encoding <<code, count, code, count, ...>>
RunLengths(results) == [j \in 1..(Len(results) \div 2) |-> results[2 * j]]

-----------------------------------------------------------------------------
(* C1..C3: the shape of the rows that appendColumn builds (Spec). *)

\* C1: after any sequence of appendColumn calls from the empty grid (and in
\* the grid constructGrid returns), the run lengths of every row's
\* run-length-encoded results sum to exactly len(grid.columns).
C1_RleCoversColumns ==
    \A k \in DOMAIN grid.Rows :
        /\ Len(grid.Rows[k].Results) % 2 = 0
        /\ SumSeq(RunLengths(grid.Rows[k].Results)) = Len(grid.Columns)

\* a row created at the third column (back-filled with two NO_RESULT cells)
\* beside a row that has a result in every column
C1_Witness ==
    /\ Len(grid.Columns) >= 3
    /\ \E k \in DOMAIN grid.Rows :
          /\ Len(grid.Rows[k].Results) >= 4
          /\ grid.Rows[k].Results[1] = Row_NO_RESULT
          /\ grid.Rows[k].Results[2] >= 2
    /\ \E k \in DOMAIN grid.Rows : grid.Rows[k].Results[1] # Row_NO_RESULT

\* C2 as claimed: every row has len(cellIds) = len(messages) = len(icons) =
\* len(grid.columns), a NO_RESULT cell contributing an empty entry to each.
C2_Original ==
    \A k \in DOMAIN grid.Rows :
        /\ Len(grid.Rows[k].CellIds) = Len(grid.Columns)
        /\ Len(grid.Rows[k].Messages) = Len(grid.Columns)
        /\ Len(grid.Rows[k].Icons) = Len(grid.Columns)

\* C2 (amended): every row has len(cellIds) = len(grid.columns), and
\* len(messages) = len(icons) = the number of its cells whose result is not
\* NO_RESULT: a NO_RESULT cell contributes an entry to cellIds only.
C2_SideArrayLengths ==
    \A k \in DOMAIN grid.Rows :
        /\ Len(grid.Rows[k].CellIds) = Len(grid.Columns)
        /\ Len(grid.Rows[k].Messages) = PresentCount(grid.Rows[k].Name, Len(cols))
        /\ Len(grid.Rows[k].Icons) = PresentCount(grid.Rows[k].Name, Len(cols))

\* a row with a back-filled cell, a cell given as NO_RESULT and a real result
C2_Witness ==
    /\ Len(grid.Columns) >= 3
    /\ \E k \in DOMAIN grid.Rows :
          /\ Len(grid.Rows[k].CellIds) = 3
          /\ Len(grid.Rows[k].Messages) = 1
          /\ \E i \in 1..Len(cols) :
                /\ grid.Rows[k].Name \in DOMAIN cols[i].cells
                /\ cols[i].cells[grid.Rows[k].Name].result = Row_NO_RESULT
          /\ \E i \in 1..Len(cols) : grid.Rows[k].Name \notin DOMAIN cols[i].cells

\* C3: the grid has exactly one row per test name that occurs in at least
\* one column, and the decoded result of row r at column i is the result of
\* cols[i].cells[r.name] when the name is in column i and NO_RESULT
\* otherwise (back-filled and missing cells are NO_RESULT).
C3_RowsMatchColumns ==
    /\ {grid.Rows[k].Name : k \in DOMAIN grid.Rows} = SeenNames
    /\ Len(grid.Rows) = Cardinality(SeenNames)
    /\ \A k \in DOMAIN grid.Rows :
          /\ Len(Iter(grid.Rows[k].Results)) = Len(cols)
          /\ Len(Iter(grid.Rows[k].Results)) = Len(cols) =>
                \A i \in 1..Len(cols) :
                    Iter(grid.Rows[k].Results)[i] = InputResult(grid.Rows[k].Name, i)

\* one row first seen at the third column and another that was seen first
\* and then went missing
C3_Witness ==
    /\ Len(cols) = 3
    /\ \E k \in DOMAIN grid.Rows :
          /\ grid.Rows[k].Name \notin DOMAIN cols[1].cells
          /\ grid.Rows[k].Name \notin DOMAIN cols[2].cells
          /\ grid.Rows[k].Name \in DOMAIN cols[3].cells
          /\ grid.Rows[k].Results[1] = Row_NO_RESULT
          /\ grid.Rows[k].Results[2] = 2
    /\ \E k \in DOMAIN grid.Rows :
          /\ grid.Rows[k].Name \in DOMAIN cols[1].cells
          /\ cols[1].cells[grid.Rows[k].Name].result # Row_NO_RESULT
          /\ grid.Rows[k].Name \notin DOMAIN cols[2].cells

-----------------------------------------------------------------------------
(* C4..C6: the alert walk of alertRow (SpecAlert). *)

\* the folded columns, newest first, in which test name has a result other
\* than NO_RESULT and RUNNING, from column i on
RECURSIVE DecisiveFrom(_, _)
DecisiveFrom(name, i) ==
    IF i > Len(cols) THEN <<>>
    ELSE (IF InputResult(name, i) \in {Row_NO_RESULT, Row_RUNNING}
          THEN <<>> ELSE <<i>>) \o DecisiveFrom(name, i + 1)

DecisiveCols(name) == DecisiveFrom(name, 1)

\* the results of test name in those columns
DecisiveResults(name) ==
    [j \in DOMAIN DecisiveCols(name) |-> InputResult(name, DecisiveCols(name)[j])]

\* d[j-n+1..j] is a run of n results res
RunEndsAt(d, j, n, res) ==
    /\ j >= n
    /\ j <= Len(d)
    /\ \A i \in (j - n + 1)..j : d[i] = res

\* walking d newest first, a run of fo FAILs is completed before a run of pcl
\* PASSes is
FailRunFirst(d, fo, pcl) ==
    \E j \in 1..Len(d) :
        /\ RunEndsAt(d, j, fo, Row_FAIL)
        /\ ~ \E k \in 1..j : RunEndsAt(d, k, pcl, Row_PASS)

\* C4: for failuresToOpen >= 1 and passesToClose >= 1, alertRow returns an
\* AlertInfo iff, walking the row newest first and ignoring NO_RESULT and
\* RUNNING cells, a run of failuresToOpen consecutive FAILs is completed
\* before a run of passesToClose consecutive PASSes is completed; with 2/1
\* [PASS, FAIL, FAIL, PASS] gives no alert and [FAIL, FAIL, PASS, PASS] one.
C4_AlertIffFailRunFirst ==
    \A k \in DOMAIN grid.Rows :
        LET row == grid.Rows[k]
            fo == failsOpen(group)
            pcl == passesClose(group)
        IN  (fo >= 1 /\ pcl >= 1) =>
              /\ (row.AlertInfo # Nil) <=>
                    FailRunFirst(DecisiveResults(row.Name), fo, pcl)
              /\ (fo = 2 /\ pcl = 1 /\
                    InputRow(row.Name) = <<Row_PASS, Row_FAIL, Row_FAIL, Row_PASS>>)
                    => row.AlertInfo = Nil
              /\ (fo = 2 /\ pcl = 1 /\
                    InputRow(row.Name) = <<Row_FAIL, Row_FAIL, Row_PASS, Row_PASS>>)
                    => row.AlertInfo # Nil

\* thresholds 2/1 and the row [FAIL, FAIL, PASS, PASS], which alerts
C4_Witness ==
    /\ failsOpen(group) = 2
    /\ passesClose(group) = 1
    /\ \E k \in DOMAIN grid.Rows :
          /\ InputRow(grid.Rows[k].Name) = <<Row_FAIL, Row_FAIL, Row_PASS, Row_PASS>>
          /\ grid.Rows[k].AlertInfo # Nil

\* the alerting streak of a row that alerts: positions in DecisiveCols of
\* its newest and of its oldest FAIL
StreakNewest(name, fo) ==
    CHOOSE j \in 1..Len(DecisiveCols(name)) :
        /\ RunEndsAt(DecisiveResults(name), j + fo - 1, fo, Row_FAIL)
        /\ \A i \in 1..(j - 1) :
              ~RunEndsAt(DecisiveResults(name), i + fo - 1, fo, Row_FAIL)

StreakOldest(name, fo) ==
    CHOOSE e \in StreakNewest(name, fo)..Len(DecisiveCols(name)) :
        /\ \A i \in StreakNewest(name, fo)..e : DecisiveResults(name)[i] = Row_FAIL
        /\ (e < Len(DecisiveCols(name)) => DecisiveResults(name)[e + 1] # Row_FAIL)

\* the build id of the i-th folded column
ColumnBuildId(i) == buildID(Ref(grid.Columns[i]))

\* the row of scenario S3: builds b3, b2, b1 and one row [FAIL, FAIL, PASS]
\* under thresholds 2/1, build ids taken from the Build field
ScenarioS3(row) ==
    /\ failsOpen(group) = 2
    /\ passesClose(group) = 1
    /\ group.Extras = 0
    /\ builds = 3
    /\ Len(cols) = 3
    /\ Len(grid.Rows) = 1
    /\ InputRow(row.Name) = <<Row_FAIL, Row_FAIL, Row_PASS>>

\* C5 as claimed: in scenario S3 the alert has failCount 2, failBuildID b3
\* and passBuildID b1; in general failBuildID is the build id of the newest
\* FAIL column of the alerting streak and passBuildID that of the most
\* recent PASS column older than the streak.
C5_Original ==
    \A k \in DOMAIN grid.Rows :
        LET row == grid.Rows[k]
            fo == failsOpen(group)
            d == DecisiveCols(row.Name)
            olderPasses == {i \in 1..Len(cols) :
                              /\ i > d[StreakOldest(row.Name, fo)]
                              /\ InputResult(row.Name, i) = Row_PASS}
        IN  /\ ScenarioS3(row) =>
                 /\ row.AlertInfo # Nil
                 /\ Deref(row.AlertInfo).FailCount = 2
                 /\ Deref(row.AlertInfo).FailBuildId = "b3"
                 /\ Deref(row.AlertInfo).PassBuildId = "b1"
            /\ (fo >= 1 /\ row.AlertInfo # Nil) =>
                 /\ Deref(row.AlertInfo).FailBuildId =
                       ColumnBuildId(d[StreakNewest(row.Name, fo)])
                 /\ olderPasses # {} =>
                       \E i \in olderPasses :
                          /\ \A o \in olderPasses : i <= o
                          /\ Deref(row.AlertInfo).PassBuildId = ColumnBuildId(i)

\* C5 (amended): in scenario S3 the alert has failCount 2, failBuildID b2
\* and passBuildID b1; in general failBuildID is the build id of the oldest
\* FAIL column of the alerting streak, and passBuildID is the build id of
\* the PASS column that directly follows the streak (NO_RESULT and RUNNING
\* cells skipped), or empty when a FLAKY cell or the end of the row follows.
C5_AlertBuildIds ==
    \A k \in DOMAIN grid.Rows :
        LET row == grid.Rows[k]
            fo == failsOpen(group)
            d == DecisiveCols(row.Name)
            r == DecisiveResults(row.Name)
            e == StreakOldest(row.Name, fo)
        IN  /\ ScenarioS3(row) =>
                 /\ row.AlertInfo # Nil
                 /\ Deref(row.AlertInfo).FailCount = 2
                 /\ Deref(row.AlertInfo).FailBuildId = "b2"
                 /\ Deref(row.AlertInfo).PassBuildId = "b1"
            /\ (fo >= 1 /\ row.AlertInfo # Nil) =>
                 /\ Deref(row.AlertInfo).FailBuildId = ColumnBuildId(d[e])
                 /\ Deref(row.AlertInfo).PassBuildId =
                       IF e < Len(d) /\ r[e + 1] = Row_PASS
                       THEN ColumnBuildId(d[e + 1])
                       ELSE ""

\* scenario S3 reached, with its alert
C5_Witness ==
    \E k \in DOMAIN grid.Rows :
        /\ ScenarioS3(grid.Rows[k])
        /\ grid.Rows[k].AlertInfo # Nil
        /\ Deref(grid.Rows[k].AlertInfo).FailBuildId = "b2"

\* the columns cs with every RUNNING cell replaced by a NO_RESULT cell
NoRunning(cs) ==
    [i \in DOMAIN cs |->
        [column |-> cs[i].column,
         cells |-> [n \in DOMAIN cs[i].cells |->
                      IF cs[i].cells[n].result = Row_RUNNING
                      THEN [cs[i].cells[n] EXCEPT !.result = Row_NO_RESULT]
                      ELSE cs[i].cells[n]]]]

\* how many of the first n folded columns hold RUNNING for name
RunningCount(name, n) ==
    Cardinality({i \in 1..n : InputResult(name, i) = Row_RUNNING})

\* C6: in alertRow a RUNNING cell is treated as NO_RESULT for the alert
\* decision: the row built from the same columns with every RUNNING cell
\* replaced by NO_RESULT gets the same nil / non-nil outcome and failCount,
\* and the walk over the columns folded so far ends with the same failures
\* and passes counters; yet each RUNNING cell advances compressedIdx by one
\* and a NO_RESULT cell does not (while the loop runs, compressedIdx is the
\* number of cells other than NO_RESULT walked so far).
C6_RunningIgnoredButCounted ==
    LET fo == failsOpen(group)
        pcl == passesClose(group)
    IN  fo >= 1 =>
          \A g0 \in {foldColumns(group, emptyGrid, NoRunning(cols))} :
          \A k \in DOMAIN grid.Rows :
          \A row \in {grid.Rows[k]} :
          \A row0 \in {g0.Rows[RowIndex(g0, row.Name)]} :
          \A a \in {alertScan(grid.Columns, row, fo, pcl)} :
          \A b \in {alertScan(g0.Columns, row0, fo, pcl)} :
              /\ (row.AlertInfo = Nil) <=> (row0.AlertInfo = Nil)
              /\ row.AlertInfo # Nil /\ row0.AlertInfo # Nil =>
                    Deref(row.AlertInfo).FailCount = Deref(row0.AlertInfo).FailCount
              /\ a.exit = b.exit
              /\ a.failures = b.failures
              /\ a.passes = b.passes
              /\ a.totalFailures = b.totalFailures
              /\ a.exit = "loop" =>
                    /\ a.compressedIdx = PresentCount(row.Name, Len(cols))
                    /\ b.compressedIdx =
                          a.compressedIdx - RunningCount(row.Name, Len(cols))

\* a row [RUNNING, FAIL, RUNNING, FAIL] that alerts under failuresToOpen 2:
\* the RUNNING cells did not break the streak, and the failure message is
\* read at compressed index 1
C6_Witness ==
    /\ failsOpen(group) = 2
    /\ \E k \in DOMAIN grid.Rows :
          /\ InputRow(grid.Rows[k].Name) =
                <<Row_RUNNING, Row_FAIL, Row_RUNNING, Row_FAIL>>
          /\ grid.Rows[k].AlertInfo # Nil
          /\ Deref(grid.Rows[k].AlertInfo).FailCount = 2
          /\ Deref(grid.Rows[k].AlertInfo).FailureMessage = grid.Rows[k].Messages[2]

-----------------------------------------------------------------------------
(* C7..C10: sparse metrics, ordering and determinism (Spec). *)

\* the column positions (0-based) that the runs of a sparse metric cover
CoveredPositions(metric) ==
    UNION {metric.Indices[2 * j - 1]..
             (metric.Indices[2 * j - 1] + metric.Indices[2 * j] - 1) :
           j \in 1..(Len(metric.Indices) \div 2)}

\* C7: every sparse metric of every row has an even-length indices list of
\* (start, length) pairs, every length >= 1, every start strictly greater
\* than the end (start + length - 1) of the preceding run, and the run
\* lengths sum to len(values).
C7_SparseIndicesWellFormed ==
    \A k \in DOMAIN grid.Rows :
      \A m \in DOMAIN grid.Rows[k].Metrics :
        LET ix == grid.Rows[k].Metrics[m].Indices
            np == Len(ix) \div 2
        IN  /\ Len(ix) % 2 = 0
            /\ \A j \in 1..np : ix[2 * j] >= 1
            /\ \A j \in 2..np : ix[2 * j - 1] > ix[2 * j - 3] + ix[2 * j - 2] - 1
            /\ SumSeq(RunLengths(ix)) = Len(grid.Rows[k].Metrics[m].Values)

\* a row with two metrics: one sampled in the first and the third column
\* (two runs with a gap), the other in the third column only
C7_Witness ==
    \E k \in DOMAIN grid.Rows :
        /\ Len(grid.Rows[k].Metrics) = 2
        /\ \E m \in DOMAIN grid.Rows[k].Metrics :
              /\ grid.Rows[k].Metrics[m].Indices = <<0, 1, 2, 1>>
              /\ Len(grid.Rows[k].Metrics[m].Values) = 2
        /\ \E m \in DOMAIN grid.Rows[k].Metrics :
              grid.Rows[k].Metrics[m].Indices = <<2, 1>>

\* C8: every column position covered by a run of a sparse metric of a row
\* lies in [0, len(grid.columns)) and names a column whose cell result for
\* that row is not NO_RESULT.
C8_MetricPositionsHaveResults ==
    \A k \in DOMAIN grid.Rows :
      \A m \in DOMAIN grid.Rows[k].Metrics :
        \A p \in CoveredPositions(grid.Rows[k].Metrics[m]) :
            /\ p >= 0
            /\ p < Len(grid.Columns)
            /\ InputResult(grid.Rows[k].Name, p + 1) # Row_NO_RESULT

\* a row with a metric sample, a cell given as NO_RESULT that carried
\* metrics, and a column the row is absent from
C8_Witness ==
    \E k \in DOMAIN grid.Rows :
        /\ \E m \in DOMAIN grid.Rows[k].Metrics :
              grid.Rows[k].Metrics[m].Values # <<>>
        /\ \E i \in 1..Len(cols) :
              /\ grid.Rows[k].Name \in DOMAIN cols[i].cells
              /\ cols[i].cells[grid.Rows[k].Name].result = Row_NO_RESULT
              /\ DOMAIN cols[i].cells[grid.Rows[k].Name].metrics # {}
        /\ \E i \in 1..Len(cols) : grid.Rows[k].Name \notin DOMAIN cols[i].cells

\* names[i] never sorts after names[j] for i < j
NaturallyOrdered(names) ==
    \A i, j \in DOMAIN names : i < j => ~NaturalLess(names[j], names[i])

\* C9: in every grid constructGrid returns, the rows are ordered by the
\* natural order of name, and in every row metric and metrics are ordered
\* by the natural order of name and aligned: metric[i] = metrics[i].name
\* for every i, with no metric name occurring twice.
C9_SortedAndAligned ==
    pc = "done" =>
      /\ NaturallyOrdered([k \in DOMAIN grid.Rows |-> grid.Rows[k].Name])
      /\ \A k \in DOMAIN grid.Rows :
            LET row == grid.Rows[k]
            IN  /\ NaturallyOrdered(row.Metric)
                /\ NaturallyOrdered([m \in DOMAIN row.Metrics |-> row.Metrics[m].Name])
                /\ Len(row.Metric) = Len(row.Metrics)
                /\ \A i \in DOMAIN row.Metric :
                      i \in DOMAIN row.Metrics /\ row.Metric[i] = row.Metrics[i].Name
                /\ \A i, j \in DOMAIN row.Metric :
                      i # j => row.Metric[i] # row.Metric[j]

\* a returned grid with rows t2, t10 and a row with metrics m2, m10: the
\* natural order, where the byte order is t10, t2 and m10, m2
C9_Witness ==
    /\ pc = "done"
    /\ [k \in DOMAIN grid.Rows |-> grid.Rows[k].Name] = <<T2, T10>>
    /\ \E k \in DOMAIN grid.Rows :
          /\ grid.Rows[k].Metric = <<M2, M10>>
          /\ Len(grid.Rows[k].Metrics) = 2

\* C10: two runs of constructGrid on the same group and the same sequence
\* of inflated columns return identical grids, whatever order the maps are
\* ranged over: the grid returned by this run, whose map orders were chosen
\* freely, is the grid of the run that ranges over every map in one fixed
\* order.
C10_GridIndependentOfMapOrder ==
    pc = "done" => grid = constructGrid(group, cols)

\* a returned grid with an alert and two metrics in a row, for whose first
\* column another order of the cells gives another grid before the sorts
C10_Witness ==
    /\ pc = "done"
    /\ Len(cols) >= 2
    /\ \E k \in DOMAIN grid.Rows : grid.Rows[k].AlertInfo # Nil
    /\ \E k \in DOMAIN grid.Rows : Len(grid.Rows[k].Metrics) = 2
    /\ \E order \in Perms(DOMAIN cols[1].cells) :
          appendColumnCells(emptyGrid, cols[1], order,
                            [n \in DOMAIN cols[1].cells |->
                                CanonOrder(DOMAIN cols[1].cells[n].metrics)])
          # appendColumnCells(emptyGrid, cols[1], CanonOrder(DOMAIN cols[1].cells),
                              [n \in DOMAIN cols[1].cells |->
                                  CanonOrder(DOMAIN cols[1].cells[n].metrics)])

-----------------------------------------------------------------------------
(* C16..C18: messages, icons and the alert's fields (SpecAlert). *)

\* the folded columns, newest first, in which test name has a result other
\* than NO_RESULT, from column i on
RECURSIVE PresentFrom(_, _)
PresentFrom(name, i) ==
    IF i > Len(cols) THEN <<>>
    ELSE (IF InputResult(name, i) = Row_NO_RESULT THEN <<>> ELSE <<i>>)
         \o PresentFrom(name, i + 1)

PresentCols(name) == PresentFrom(name, 1)

\* C16: every row's messages and icons hold exactly one entry per cell whose
\* result is not NO_RESULT (RUNNING cells included), in column order, and
\* none for NO_RESULT cells: the k-th entry is the message (icon) of the
\* k-th column in which the row has a result other than NO_RESULT.
C16_MessagesFollowPresentCells ==
    \A k \in DOMAIN grid.Rows :
        LET row == grid.Rows[k]
            p == PresentCols(row.Name)
        IN  /\ Len(row.Messages) = Len(p)
            /\ Len(row.Icons) = Len(p)
            /\ \A j \in DOMAIN p :
                  /\ j <= Len(row.Messages) =>
                        row.Messages[j] = cols[p[j]].cells[row.Name].message
                  /\ j <= Len(row.Icons) =>
                        row.Icons[j] = cols[p[j]].cells[row.Name].icon

\* a row [RUNNING, NO_RESULT, FAIL, ...]: two messages, that of the RUNNING
\* cell of the first column and that of the FAIL cell of the third
C16_Witness ==
    /\ Len(cols) >= 3
    /\ \E k \in DOMAIN grid.Rows :
          /\ InputResult(grid.Rows[k].Name, 1) = Row_RUNNING
          /\ InputResult(grid.Rows[k].Name, 2) = Row_NO_RESULT
          /\ InputResult(grid.Rows[k].Name, 3) = Row_FAIL
          /\ Len(grid.Rows[k].Messages) >= 2
          /\ grid.Rows[k].Messages[1] = cols[1].cells[grid.Rows[k].Name].message
          /\ grid.Rows[k].Messages[2] = cols[3].cells[grid.Rows[k].Name].message
          /\ grid.Rows[k].Icons[2] = cols[3].cells[grid.Rows[k].Name].icon

\* C17: whenever alertRow emits an alert on a row built by appendColumn,
\* failureMessage is the message of the newest FAIL cell of the alerting
\* streak and failTestId is the cellID of that same cell, also when
\* NO_RESULT cells lie at newer positions than that FAIL.
C17_FailTestIdOfReportedCell ==
    \A k \in DOMAIN grid.Rows :
        LET row == grid.Rows[k]
            fo == failsOpen(group)
            i == DecisiveCols(row.Name)[StreakNewest(row.Name, fo)]
        IN  (fo >= 1 /\ row.AlertInfo # Nil) =>
              /\ Deref(row.AlertInfo).FailureMessage = cols[i].cells[row.Name].message
              /\ Deref(row.AlertInfo).FailTestId = cols[i].cells[row.Name].cellID

\* the number of FAILs among the first n entries of d
FailsUpTo(d, n) == Cardinality({j \in 1..n : d[j] = Row_FAIL})

\* C18 as claimed: failCount is the number of consecutive FAIL results of
\* the streak that opened the alert; the failures of earlier streaks that a
\* PASS or a FLAKY reset are not counted.
C18_Original ==
    \A k \in DOMAIN grid.Rows :
        LET row == grid.Rows[k]
            fo == failsOpen(group)
        IN  (fo >= 1 /\ row.AlertInfo # Nil) =>
              Deref(row.AlertInfo).FailCount =
                 StreakOldest(row.Name, fo) - StreakNewest(row.Name, fo) + 1

\* C18 (amended): failCount is the number of all FAIL results walked from
\* the newest column to the oldest FAIL of the streak that opened the alert:
\* the FAILs of that streak and also those of newer streaks that a PASS or a
\* FLAKY reset before they reached failuresToOpen.
C18_FailCountIsTotal ==
    \A k \in DOMAIN grid.Rows :
        LET row == grid.Rows[k]
            fo == failsOpen(group)
        IN  (fo >= 1 /\ row.AlertInfo # Nil) =>
              Deref(row.AlertInfo).FailCount =
                 FailsUpTo(DecisiveResults(row.Name), StreakOldest(row.Name, fo))

\* failuresToOpen 2 and the row [FAIL, FLAKY, FAIL, FAIL]: the streak has two
\* FAILs, failCount is 3
C18_Witness ==
    /\ failsOpen(group) = 2
    /\ \E k \in DOMAIN grid.Rows :
          /\ InputRow(grid.Rows[k].Name) = <<Row_FAIL, Row_FLAKY, Row_FAIL, Row_FAIL>>
          /\ grid.Rows[k].AlertInfo # Nil
          /\ Deref(grid.Rows[k].AlertInfo).FailCount = 3

-----------------------------------------------------------------------------
(* C11..C15, C19, C20: Update, its workers, updateGroup, testGroupPath and *)
(* logUpdate (SpecUpdate, SpecUpdateFair).                                 *)

\* the workers that hold test group g, from its receipt to its completion
Owners(g) ==
    {w \in DOMAIN workers :
        /\ workers[w].tg # Nil
        /\ Deref(workers[w].tg).Name = cfg[g].Name}

\* the workers inside updateGroup
InUpdateGroup == {w \in DOMAIN workers : workers[w].pc = "update"}

\* C11: in all-groups mode with groupConcurrency >= 1 (every updateGroup
\* call terminating, whether it succeeds or fails), once the configuration
\* is read Update eventually returns nil, and it returns only after every
\* test group of the configuration has been handed to updateGroup exactly
\* once and all those calls have finished.
C11_ReturnsAfterAllGroups ==
    /\ (upc = "spawn" /\ groupName = "" /\ groupConcurrency >= 1)
          ~> (upc = "returned" /\ ret = Nil)
    /\ []((upc = "returned" /\ ret = Nil /\ groupName = "") =>
            \A g \in DOMAIN cfg :
                calls[g].invoked = 1 /\ calls[g].finished = 1)

\* C12: at every moment at most groupConcurrency updateGroup calls are in
\* progress, and each group is owned by exactly one worker from receipt to
\* completion: no two workers hold the same group, a group is received at
\* most once, and a received group is either held by one worker or was
\* rejected by testGroupPath or finished by updateGroup.
C12_WorkersOwnGroups ==
    /\ Cardinality(InUpdateGroup) <= groupConcurrency
    /\ \A v, w \in DOMAIN workers :
          (v # w /\ workers[v].tg # Nil /\ workers[w].tg # Nil) =>
              Deref(workers[v].tg).Name # Deref(workers[w].tg).Name
    /\ \A g \in DOMAIN cfg :
          /\ calls[g].received <= 1
          /\ calls[g].received =
                Cardinality(Owners(g)) + calls[g].rejected + calls[g].finished
          /\ calls[g].invoked =
                Cardinality(Owners(g) \cap InUpdateGroup) + calls[g].finished

\* two workers inside updateGroup at once, each with its own group
C12_Witness ==
    /\ groupConcurrency = 2
    /\ Cardinality(InUpdateGroup) = 2
    /\ \A g \in DOMAIN cfg : Cardinality(Owners(g)) = 1

\* no test group of the configuration has the name given to Update
NotConfigured == \A g \in DOMAIN cfg : cfg[g].Name # groupName

\* C13 as claimed: when a group name is given, updateGroup is invoked
\* exactly once, for the named group, by the time Update returns nil; when
\* the named group is not in the configuration, Update returns a non-nil
\* error and updateGroup is never invoked for any group.
C13_Original ==
    groupName # "" =>
      /\ (upc = "returned" /\ ret = Nil) =>
            \A g \in DOMAIN cfg :
                calls[g].invoked = IF cfg[g].Name = groupName THEN 1 ELSE 0
      /\ NotConfigured =>
            /\ \A g \in DOMAIN cfg : calls[g].invoked = 0
            /\ upc = "returned" => ret # Nil

\* C13 (amended): when a group name is given, only the named group is ever
\* handed to a worker, and by the time Update returns nil updateGroup was
\* invoked exactly once, for the named group, unless testGroupPath returned
\* an error for it, in which case updateGroup was not invoked at all; when
\* the named group is not in the configuration, Update returns a non-nil
\* error and updateGroup is never invoked for any group.
C13_NamedGroupOnly ==
    groupName # "" =>
      /\ \A g \in DOMAIN cfg :
            /\ cfg[g].Name # groupName =>
                  calls[g].received = 0 /\ calls[g].invoked = 0
            /\ calls[g].invoked <= 1
      /\ (upc = "returned" /\ ret = Nil) =>
            \A g \in DOMAIN cfg :
                cfg[g].Name = groupName =>
                    /\ calls[g].received = 1
                    /\ calls[g].invoked + calls[g].rejected = 1
                    /\ calls[g].finished = calls[g].invoked
      /\ NotConfigured =>
            /\ \A g \in DOMAIN cfg : calls[g].invoked = 0
            /\ upc = "returned" => ret # Nil

\* Update given the first of two groups has returned nil after one call of
\* updateGroup for it; the other group was left alone
C13_Witness ==
    /\ groupName = GroupNames[1]
    /\ Len(cfg) = 2
    /\ upc = "returned"
    /\ ret = Nil
    /\ calls[1].invoked = 1
    /\ calls[1].finished = 1
    /\ calls[2].received = 0

\* the steps of updateGroup that come before the upload
StepsBeforeUpload == {"set", "list", "read", "marshal"}

\* C14: in one updateGroup call the grid is uploaded at most once, and
\* only if confirm is true and the group path parse, the build listing,
\* readColumns and marshalGrid all succeeded; if one of those steps fails
\* updateGroup returns an error without calling Upload, and with confirm
\* false Upload is never called.
C14_UploadOnlyWhenConfirmed ==
    \A g \in DOMAIN cfg :
        /\ Len(calls[g].uploads) <= 1
        /\ calls[g].uploads # <<>> =>
              /\ confirm
              /\ calls[g].io # Nil
              /\ Deref(calls[g].io).failAt \notin StepsBeforeUpload
              /\ calls[g].uploads[1].buf =
                    [zlib |-> constructGrid(cfg[g], ReadColumns(cfg[g]))]
        /\ (calls[g].io # Nil /\ Deref(calls[g].io).failAt \in StepsBeforeUpload) =>
              /\ calls[g].err # Nil
              /\ calls[g].uploads = <<>>
        /\ ~confirm => calls[g].uploads = <<>>

\* with confirm true, one group was uploaded and the call for another
\* failed in marshalGrid and uploaded nothing
C14_Witness ==
    /\ confirm
    /\ \E g \in DOMAIN cfg :
          /\ calls[g].finished = 1
          /\ calls[g].err = Nil
          /\ Len(calls[g].uploads) = 1
    /\ \E g \in DOMAIN cfg :
          /\ calls[g].io = Ref([failAt |-> "marshal"])
          /\ calls[g].err # Nil
          /\ calls[g].uploads = <<>>

\* C15: testGroupPath returns either a non-nil error or a non-nil path in
\* the configuration path's bucket, so no worker ever dereferences a nil
\* path, and a worker runs updateGroup only with a path in that bucket.
C15_PathOrError ==
    \A w \in DOMAIN workers :
        /\ workers[w].pc # "panicked"
        /\ workers[w].pc = "update" =>
              /\ workers[w].tgp # Nil
              /\ Deref(workers[w].tgp).Bucket = ConfigPath.Bucket

\* C19: on every return path of Update past the start of the workers, the
\* error return for a named group that is not found included, the channel
\* groups has been closed and every worker goroutine has terminated.
C19_ClosedAndJoined ==
    (upc = "returned" /\ groupsChan # "nil") =>
        /\ groupsChan = "closed"
        /\ \A w \in DOMAIN workers : workers[w].pc = "done"

\* C20: whenever the one-minute timer of logUpdate fires, current is
\* non-zero, so elapsed / current is never a division by zero.
C20_TimerNeverDividesByZero ==
    [][TimerFires => current # 0]_vars

=============================================================================
